---- MODULE Spec2Model ----
(***************************************************************************)
(* The Streamlit image transformation tool of src/app.py.                  *)
(*                                                                         *)
(* The script is re-run from top to bottom after every user interaction.   *)
(* The state that survives between two runs is st.session_state and the    *)
(* values of the widgets; a run turns these into a page (the messages,     *)
(* the displayed result and the download button).  Each action below is    *)
(* one interaction followed by the complete run of the script.             *)
(*                                                                         *)
(* An image is a record [w, h, px, via].  px is the array of pixels, a     *)
(* sequence of h rows of w pixels <<r, g, b>> (numpy index [y][x], here    *)
(* 1-based).  The results of cv2.warpAffine, cv2.warpPerspective and       *)
(* cv2.resize are kept as terms: via names the call and its arguments and  *)
(* px is the array the call was given, so that two such results are equal  *)
(* when the same call was made on the same array.  Their sizes are         *)
(* computed.  The option labels are written without their emoji.           *)
(***************************************************************************)
EXTENDS Integers, Sequences, FiniteSets, TLC

\* ---------------------------------------------------------------- bounds
MaxW == 3
MaxH == 3

\* ------------------------------------------------------------- arithmetic
Min(a, b) == IF a < b THEN a ELSE b
Max(a, b) == IF a > b THEN a ELSE b

RECURSIVE Pow2(_)
Pow2(n) == IF n <= 0 THEN 1 ELSE 2 * Pow2(n - 1)

\* Position of the leading bit of k (floor of log2), -1 for k = 0.
RECURSIVE FloorLog2(_)
FloorLog2(k) == IF k <= 0 THEN -1 ELSE 1 + FloorLog2(k \div 2)

\* ndarray.astype(np.uint8) and astype(np.int16) of an integer value.
AsUint8(x) == x % 256
AsInt16(x) == ((x + 32768) % 65536) - 32768

\* np.clip(x, 0, 255)
Clip(x) == Min(Max(x, 0), 255)

\* cvRound(n / d): round to nearest, ties to even (n >= 0, d > 0).
CvRound(n, d) ==
    LET q == n \div d
        r == n % d
    IN  IF 2 * r < d THEN q
        ELSE IF 2 * r > d THEN q + 1
        ELSE IF q % 2 = 0 THEN q ELSE q + 1

\* ----------------------------------------------------------------- images
Literal == [fn |-> "ndarray", arg |-> <<>>]

\* Python's None where an image is expected.
NoImage == [w |-> 0, h |-> 0, px |-> <<>>, via |-> [fn |-> "None", arg |-> <<>>]]

Array(w, h, px) == [w |-> w, h |-> h, px |-> px, via |-> Literal]

\* The pixel at column x, row y (0-based) of the p-th test picture.
Pixel(p, x, y) ==
    << (150 * p + 53 * x) % 256,
       (60 * p + 101 * y) % 256,
       (255 + 216 * (x + y) * p) % 256 >>

\* np.array(Image.open(file).convert("RGB")): an h x w x 3 array of uint8.
Picture(w, h, p) ==
    Array(w, h, [y \in 1..h |-> [x \in 1..w |-> Pixel(p, x - 1, y - 1)]])

\* The files and camera frames the user has at hand.
Patterns == { 1, 2 }
Pictures == { Picture(w, h, p) : w \in 1..MaxW, h \in 1..MaxH, p \in Patterns }

\* ------------------------------------------------------ per-channel maths
BrightnessMin == -100
BrightnessMax == 100
ContrastMin == 10
ContrastMax == 300

\* Faulty variant: the addition done in uint8, which wraps around.
BrightnessWrap(v, brightness) == AsUint8(v + brightness)
\* One element of  np.clip(img.astype(np.int16) + brightness, 0, 255).astype(np.uint8)
BrightnessChannel(v, brightness) == AsUint8(Clip(AsInt16(AsInt16(v) + brightness)))

\* The float32 nearest to c / 100 (c in 10..399), as mantissa m and scale s:
\* the value is m / 2^s with 2^23 <= m < 2^24.
F32Scale(c) ==
    IF c < 13 THEN 27
    ELSE IF c < 25 THEN 26
    ELSE IF c < 50 THEN 25
    ELSE IF c < 100 THEN 24
    ELSE IF c < 200 THEN 23
    ELSE 22
F32Mantissa(c) == (c * Pow2(F32Scale(c)) + 50) \div 100

\* int(x) of the float32 product x = float32(v) * float32(c / 100), v in 0..255.
\* The exact product is k + R / 2^s; it is rounded to 24 significant bits, and
\* the integer part changes only if that rounding reaches k + 1.
F32MulTrunc(v, c) ==
    LET s  == F32Scale(c)
        m  == F32Mantissa(c)
        A  == v * (m \div 4096)
        B  == v * (m % 4096)
        A2 == A + (B \div 4096)
        d  == Pow2(s - 12)
        k  == A2 \div d
        R  == (A2 % d) * 4096 + (B % 4096)
        e  == FloorLog2(k)
        up == /\ R > 0
              /\ s + e >= 24
              /\ Pow2(s) - R <= Pow2(s + e - 24)
    IN  IF up THEN k + 1 ELSE k

\* Faulty variant: no np.clip before the conversion to uint8.
ContrastWrap(v, contrast) == AsUint8(F32MulTrunc(v, contrast))
\* One element of  np.clip(img.astype(np.float32) * contrast, 0, 255).astype(np.uint8)
ContrastChannel(v, contrast) == AsUint8(Clip(F32MulTrunc(v, contrast)))

\* cv2.COLOR_RGB2GRAY on uint8: 15-bit fixed point luminance.
GrayChannel(p) == (9798 * p[1] + 19235 * p[2] + 3735 * p[3] + 16384) \div 32768

\* ------------------------------------------------------------ array maps
Brightness(img, brightness) ==
    Array(img.w, img.h,
          [y \in 1..img.h |-> [x \in 1..img.w |->
             << BrightnessChannel(img.px[y][x][1], brightness),
                BrightnessChannel(img.px[y][x][2], brightness),
                BrightnessChannel(img.px[y][x][3], brightness) >>]])

Contrast(img, contrast) ==
    Array(img.w, img.h,
          [y \in 1..img.h |-> [x \in 1..img.w |->
             << ContrastChannel(img.px[y][x][1], contrast),
                ContrastChannel(img.px[y][x][2], contrast),
                ContrastChannel(img.px[y][x][3], contrast) >>]])

\* cv2.cvtColor(cv2.cvtColor(img, COLOR_RGB2GRAY), COLOR_GRAY2RGB)
Grayscale(img) ==
    Array(img.w, img.h,
          [y \in 1..img.h |-> [x \in 1..img.w |->
             << GrayChannel(img.px[y][x]), GrayChannel(img.px[y][x]),
                GrayChannel(img.px[y][x]) >>]])

\* cv2.flip(img, 1) mirrors the columns, cv2.flip(img, 0) the rows.
Flip(img, flipCode) ==
    IF flipCode = 1
    THEN Array(img.w, img.h,
               [y \in 1..img.h |-> [x \in 1..img.w |-> img.px[y][img.w + 1 - x]]])
    ELSE Array(img.w, img.h,
               [y \in 1..img.h |-> [x \in 1..img.w |-> img.px[img.h + 1 - y][x]]])

\* Faulty variant: the columns taken one to the right.
SliceShifted(img, x1, x2, y1, y2) ==
    Array(x2 - x1, y2 - y1,
          [y \in 1..(y2 - y1) |->
             [x \in 1..(x2 - x1) |-> img.px[y1 + y][Min(x1 + x + 1, img.w)]]])
\* img[y1:y2, x1:x2] for 0 <= x1 <= x2 <= w and 0 <= y1 <= y2 <= h.
Slice(img, x1, x2, y1, y2) ==
    Array(x2 - x1, y2 - y1,
          [y \in 1..(y2 - y1) |-> [x \in 1..(x2 - x1) |-> img.px[y1 + y][x1 + x]]])

\* cv2.warpAffine(img, M, (w, h)) and cv2.warpPerspective(img, M, (w, h)):
\* the output canvas is the requested (w, h); M is named by what built it.
WarpAffine(img, M, w, h) ==
    [w |-> w, h |-> h, px |-> img.px, via |-> [fn |-> "cv2.warpAffine", arg |-> M]]
WarpPerspective(img, M, w, h) ==
    [w |-> w, h |-> h, px |-> img.px, via |-> [fn |-> "cv2.warpPerspective", arg |-> M]]

\* cv2.getRotationMatrix2D(center, angle, 1.0)
GetRotationMatrix2D(cx, cy, angle) == << cx, cy, angle, 1 >>
\* cv2.getAffineTransform(pts1, pts2), cv2.getPerspectiveTransform(pts1, pts2)
GetAffineTransform(pts1, pts2) == pts1 \o pts2
GetPerspectiveTransform(pts1, pts2) == pts1 \o pts2

\* The output size of cv2.resize(img, None, fx=scale/100, fy=scale/100).
ResizeW(img, scale) == CvRound(img.w * scale, 100)
ResizeH(img, scale) == CvRound(img.h * scale, 100)
\* cv2.resize asserts that the computed size is not empty.
ResizeRaises(img, scale) == ResizeW(img, scale) = 0 \/ ResizeH(img, scale) = 0
Resize(img, scale) ==
    [w |-> ResizeW(img, scale), h |-> ResizeH(img, scale), px |-> img.px,
     via |-> [fn |-> "cv2.resize", arg |-> << scale >>]]

\* ------------------------------------------------------ widgets and page
TransformTypes ==
    { "None", "Rotate", "Scale", "Crop", "Affine Transform", "Perspective Transform",
      "Brightness Adjustment", "Contrast Adjustment", "Flip", "Grayscale Conversion" }
Sources == { "Upload Image", "Use Camera" }
FlipModes == { "Horizontal", "Vertical" }

\* The values the sliders are moved to (scale and contrast in hundredths).
Angles == { -180, 0, 90, 180 }
Scales == { 10, 50, 100, 250, 300 }
Brightnesses == { BrightnessMin, 0, 60, BrightnessMax }
Contrasts == { ContrastMin, 100, 105, 255, ContrastMax }

\* The value of every slider that is not on the page: its default.
Defaults ==
    [angle |-> 0, scale |-> 100, x1 |-> 0, x2 |-> 0, y1 |-> 0, y2 |-> 0,
     brightness |-> 0, contrast |-> 100, flip_mode |-> "Horizontal"]

NoDownload == [offered |-> FALSE, file_name |-> "", mime |-> "", data |-> NoImage]

\* Image.fromarray(img).save(buffer, format="PNG") behind st.download_button.
DownloadButton(img) ==
    [offered |-> TRUE, file_name |-> "transformed_image.png", mime |-> "image/png",
     data |-> img]

\* What one branch of the transform chain leaves behind: the local
\* transformed_image, whether it was displayed with st.image, the st.error
\* text, whether the branch raised, and whether the crop sliders were drawn.
Displayed(img) ==
    [transformed_image |-> img, displayed |-> TRUE, error |-> "", raised |-> FALSE,
     crop_options |-> FALSE]
Untouched(img) ==
    [transformed_image |-> img, displayed |-> FALSE, error |-> "", raised |-> FALSE,
     crop_options |-> FALSE]

RotateBranch(img, prm) ==
    LET h == img.h
        w == img.w
        matrix == GetRotationMatrix2D(w \div 2, h \div 2, prm.angle)
    IN  Displayed(WarpAffine(img, matrix, w, h))

ScaleBranch(img, prm) ==
    IF ResizeRaises(img, prm.scale)
    THEN [Untouched(img) EXCEPT !.raised = TRUE]
    ELSE Displayed(Resize(img, prm.scale))

\* Faulty variant: the size check left out.
CropBranchUnguarded(img, prm) ==
    [Displayed(Slice(img, prm.x1, prm.x2, prm.y1, prm.y2))
       EXCEPT !.crop_options = TRUE]
\* The Crop branch: the error for a picture under 2 x 2, else the sliders
\* and the slice.
CropBranch(img, prm) ==
    IF img.w < 2 \/ img.h < 2
    THEN [Untouched(img) EXCEPT !.error = "Image too small to crop."]
    ELSE [Displayed(Slice(img, prm.x1, prm.x2, prm.y1, prm.y2))
            EXCEPT !.crop_options = TRUE]

AffineBranch(img) ==
    LET pts1 == << 50, 50, 200, 50, 50, 200 >>
        pts2 == << 10, 100, 200, 50, 100, 250 >>
    IN  Displayed(WarpAffine(img, GetAffineTransform(pts1, pts2), img.w, img.h))

PerspectiveBranch(img) ==
    LET h == img.h
        w == img.w
        pts1 == << 0, 0, w - 1, 0, 0, h - 1, w - 1, h - 1 >>
        pts2 == << 0, 0, w - 100, 50, 50, h - 100, w - 50, h - 50 >>
    IN  Displayed(WarpPerspective(img, GetPerspectiveTransform(pts1, pts2), w, h))

FlipBranch(img, prm) ==
    Displayed(Flip(img, IF prm.flip_mode = "Horizontal" THEN 1 ELSE 0))

\* The if / elif chain on transform_type.
Transform(img, tt, prm) ==
    CASE tt = "Rotate" -> RotateBranch(img, prm)
      [] tt = "Scale" -> ScaleBranch(img, prm)
      [] tt = "Crop" -> CropBranch(img, prm)
      [] tt = "Affine Transform" -> AffineBranch(img)
      [] tt = "Perspective Transform" -> PerspectiveBranch(img)
      [] tt = "Brightness Adjustment" -> Displayed(Brightness(img, prm.brightness))
      [] tt = "Contrast Adjustment" -> Displayed(Contrast(img, prm.contrast))
      [] tt = "Flip" -> FlipBranch(img, prm)
      [] tt = "Grayscale Conversion" -> Displayed(Grayscale(img))
      [] OTHER -> Untouched(img)

VARIABLES session_state, source, uploaded_file, camera_image, transform_type,
          params, page, input_branch, probe

vars == << session_state, source, uploaded_file, camera_image, transform_type,
           params, page, input_branch, probe >>

\* `image`: what the widget of the chosen source holds in this run.
SuppliedImage(src, up, cam) == IF src = "Upload Image" THEN up ELSE cam

\* Faulty variant: the comparison with the current original left out.
KeepFirstImage(ss, image) ==
    IF image # NoImage /\ ss.original_image = NoImage
    THEN [original_image |-> image, transformed_image |-> NoImage]
    ELSE ss
\* Faulty variant: the test for "image is not None" left out.
FollowWidget(ss, image) ==
    IF ss.original_image = NoImage \/ image # ss.original_image
    THEN [original_image |-> image, transformed_image |-> NoImage]
    ELSE ss
\* The replacement of the session's image by a new upload or capture.
SessionAfterInput(ss, image) ==
    IF image # NoImage
    THEN IF ss.original_image = NoImage \/ image # ss.original_image
         THEN [original_image |-> image, transformed_image |-> NoImage]
         ELSE ss
    ELSE ss

\* Which way that code went in the last run.
InputBranch(ss, image) ==
    IF image = NoImage THEN "no image"
    ELSE IF ss.original_image = NoImage THEN "first image"
    ELSE IF image # ss.original_image THEN "replaced"
    ELSE "same image"

\* Faulty variant: the result of the previous run taken as the base.
ChainedImage(ss) ==
    IF /\ page.shown.via = Literal
       /\ page.shown.w = ss.original_image.w
       /\ page.shown.h = ss.original_image.h
    THEN page.shown
    ELSE ss.original_image
\* base_image = st.session_state.original_image.copy()
base_image(ss) == ss.original_image

\* The slider values of this run.  A slider that was not on the previous
\* page, or is created with other bounds than before, starts at its default.
Sliders(tt, img, req) ==
    LET crop  == tt = "Crop" /\ img.w >= 2 /\ img.h >= 2
        keepX == page.crop_options /\ session_state.original_image.w = img.w
        keepY == page.crop_options /\ session_state.original_image.h = img.h
    IN  [angle |-> IF tt = "Rotate" THEN req.angle ELSE Defaults.angle,
         scale |-> IF tt = "Scale" THEN req.scale ELSE Defaults.scale,
         x1 |-> IF crop /\ keepX THEN req.x1 ELSE 0,
         x2 |-> IF crop THEN (IF keepX THEN req.x2 ELSE img.w) ELSE 0,
         y1 |-> IF crop /\ keepY THEN req.y1 ELSE 0,
         y2 |-> IF crop THEN (IF keepY THEN req.y2 ELSE img.h) ELSE 0,
         brightness |-> IF tt = "Brightness Adjustment" THEN req.brightness
                        ELSE Defaults.brightness,
         contrast |-> IF tt = "Contrast Adjustment" THEN req.contrast
                      ELSE Defaults.contrast,
         flip_mode |-> IF tt = "Flip" THEN req.flip_mode ELSE Defaults.flip_mode]

\* The page when no image is loaded: st.info and st.stop().
StoppedPage ==
    [stopped |-> TRUE, info |-> "Please upload or capture an image to begin.",
     error |-> "", exception |-> FALSE, crop_options |-> FALSE,
     shown |-> NoImage, download |-> NoDownload]

\* The page below the original image.
ResultPage(out, tt) ==
    [stopped |-> FALSE, info |-> "", error |-> out.error, exception |-> out.raised,
     crop_options |-> out.crop_options,
     shown |-> IF out.displayed THEN out.transformed_image ELSE NoImage,
     download |-> IF tt # "None" /\ ~out.raised
                  THEN DownloadButton(out.transformed_image)
                  ELSE NoDownload]

\* One run of the script with the widgets at src, up, cam, tt and the sliders
\* asked to be at req.
Rerun(src, up, cam, tt, req) ==
    LET image == SuppliedImage(src, up, cam)
        ss    == SessionAfterInput(session_state, image)
    IN  /\ source' = src
        /\ uploaded_file' = up
        /\ camera_image' = cam
        /\ transform_type' = tt
        /\ session_state' = ss
        /\ input_branch' = InputBranch(session_state, image)
        /\ IF ss.original_image = NoImage
           THEN /\ params' = Defaults
                /\ page' = StoppedPage
           ELSE LET base == base_image(ss)
                    prm  == Sliders(tt, base, req)
                IN  /\ params' = prm
                    /\ page' = ResultPage(Transform(base, tt, prm), tt)
        /\ UNCHANGED probe

NoProbe == [op |-> "none", v |-> 0, p |-> 0, out |-> 0]

\* The first run of the script in a new session.
Init ==
    /\ session_state = [original_image |-> NoImage, transformed_image |-> NoImage]
    /\ source = "Upload Image"
    /\ uploaded_file = NoImage
    /\ camera_image = NoImage
    /\ transform_type = "None"
    /\ params = Defaults
    /\ page = StoppedPage
    /\ input_branch = "no image"
    /\ probe = NoProbe

\* ---------------------------------------------------------- interactions
UploadFile ==
    /\ source = "Upload Image"
    /\ \E img \in Pictures \ { uploaded_file } :
         Rerun(source, img, camera_image, transform_type, params)

RemoveFile ==
    /\ source = "Upload Image"
    /\ uploaded_file # NoImage
    /\ Rerun(source, NoImage, camera_image, transform_type, params)

TakePicture ==
    /\ source = "Use Camera"
    /\ \E img \in Pictures \ { camera_image } :
         Rerun(source, uploaded_file, img, transform_type, params)

ClearPicture ==
    /\ source = "Use Camera"
    /\ camera_image # NoImage
    /\ Rerun(source, uploaded_file, NoImage, transform_type, params)

\* The widget of the other source leaves the page and loses its value.
ChooseSource ==
    \E src \in Sources \ { source } :
        Rerun(src, NoImage, NoImage, transform_type, params)

SelectTransform ==
    \E tt \in TransformTypes \ { transform_type } :
        Rerun(source, uploaded_file, camera_image, tt, Defaults)

Loaded == session_state.original_image # NoImage

Same(req) == Rerun(source, uploaded_file, camera_image, transform_type, req)

SetAngle ==
    /\ Loaded /\ transform_type = "Rotate"
    /\ \E a \in Angles \ { params.angle } : Same([params EXCEPT !.angle = a])

SetScale ==
    /\ Loaded /\ transform_type = "Scale"
    /\ \E s \in Scales \ { params.scale } : Same([params EXCEPT !.scale = s])

\* st.slider("X Start", 0, w - 2, 0); "X End" is then a new slider.
SetXStart ==
    /\ page.crop_options
    /\ \E v \in (0..(session_state.original_image.w - 2)) \ { params.x1 } :
         Same([params EXCEPT !.x1 = v, !.x2 = session_state.original_image.w])

\* st.slider("X End", x1 + 1, w, w)
SetXEnd ==
    /\ page.crop_options
    /\ \E v \in ((params.x1 + 1)..session_state.original_image.w) \ { params.x2 } :
         Same([params EXCEPT !.x2 = v])

\* st.slider("Y Start", 0, h - 2, 0); "Y End" is then a new slider.
SetYStart ==
    /\ page.crop_options
    /\ \E v \in (0..(session_state.original_image.h - 2)) \ { params.y1 } :
         Same([params EXCEPT !.y1 = v, !.y2 = session_state.original_image.h])

\* st.slider("Y End", y1 + 1, h, h)
SetYEnd ==
    /\ page.crop_options
    /\ \E v \in ((params.y1 + 1)..session_state.original_image.h) \ { params.y2 } :
         Same([params EXCEPT !.y2 = v])

SetBrightness ==
    /\ Loaded /\ transform_type = "Brightness Adjustment"
    /\ \E b \in Brightnesses \ { params.brightness } :
         Same([params EXCEPT !.brightness = b])

SetContrast ==
    /\ Loaded /\ transform_type = "Contrast Adjustment"
    /\ \E c \in Contrasts \ { params.contrast } :
         Same([params EXCEPT !.contrast = c])

SetFlipMode ==
    /\ Loaded /\ transform_type = "Flip"
    /\ \E m \in FlipModes \ { params.flip_mode } :
         Same([params EXCEPT !.flip_mode = m])

Next ==
    \/ UploadFile \/ RemoveFile \/ TakePicture \/ ClearPicture \/ ChooseSource
    \/ SelectTransform \/ SetAngle \/ SetScale
    \/ SetXStart \/ SetXEnd \/ SetYStart \/ SetYEnd
    \/ SetBrightness \/ SetContrast \/ SetFlipMode

Spec == Init /\ [][Next]_vars

\* ------------------------------------------- the per-channel arithmetic
\* The two element-wise expressions of the brightness and contrast branches,
\* applied to every uint8 value and every position of their sliders (the
\* contrast slider moves in steps of 0.01).
InitChannel ==
    /\ session_state = [original_image |-> NoImage, transformed_image |-> NoImage]
    /\ source = "Upload Image"
    /\ uploaded_file = NoImage
    /\ camera_image = NoImage
    /\ transform_type = "None"
    /\ params = Defaults
    /\ page = StoppedPage
    /\ input_branch = "no image"
    /\ probe \in { [op |-> "input", v |-> v, p |-> 0, out |-> 0] : v \in 0..255 }

ProbeBrightness ==
    /\ probe.op = "input"
    /\ \E b \in BrightnessMin..BrightnessMax :
         probe' = [op |-> "brightness", v |-> probe.v, p |-> b,
                   out |-> BrightnessChannel(probe.v, b)]
    /\ UNCHANGED << session_state, source, uploaded_file, camera_image,
                    transform_type, params, page, input_branch >>

ProbeContrast ==
    /\ probe.op = "input"
    /\ \E c \in ContrastMin..ContrastMax :
         probe' = [op |-> "contrast", v |-> probe.v, p |-> c,
                   out |-> ContrastChannel(probe.v, c)]
    /\ UNCHANGED << session_state, source, uploaded_file, camera_image,
                    transform_type, params, page, input_branch >>

NextChannel == ProbeBrightness \/ ProbeContrast

SpecChannel == InitChannel /\ [][NextChannel]_vars

\* ---------------------------------------------------------------- claims
Original == session_state.original_image
TooSmall == Original.w < 2 \/ Original.h < 2

\* C1: transforms are never chained.  After every run the displayed result
\* and the image behind the download button are the selected transform, with
\* the current slider values, of the session's original image, and that
\* original is still a picture exactly as it was uploaded or captured.
NotChained ==
    /\ Original \in Pictures \cup { NoImage }
    /\ Loaded =>
         LET out == Transform(Original, transform_type, params)
         IN  /\ page.shown = IF out.displayed THEN out.transformed_image ELSE NoImage
             /\ page.download.offered => page.download.data = out.transformed_image

\* A second brightness value on the same picture: the page of the run before
\* already showed a brightness result.
NotChainedWitness ==
    /\ transform_type = "Brightness Adjustment"
    /\ params.brightness = 60
    /\ input_branch = "same image"
    /\ page.download.offered
    /\ page.shown = Brightness(Original, 60)
    /\ page.shown # Original

\* C2: a run that is given an image whose content differs from the session's
\* original (or when there is none) makes it the original and sets the
\* session's transformed image to None; a run given the same content leaves
\* both session fields as they were.
ReplaceOnNewContent ==
    [][ LET image == SuppliedImage(source', uploaded_file', camera_image')
        IN  image # NoImage =>
              IF Original = NoImage \/ image # Original
              THEN session_state' = [original_image |-> image,
                                     transformed_image |-> NoImage]
              ELSE session_state' = session_state ]_vars

ReplaceOnNewContentWitness ==
    /\ input_branch = "replaced"
    /\ Original = uploaded_file
    /\ session_state.transformed_image = NoImage
    /\ page.shown # NoImage

\* C3: the download is offered only for the result of a transform other
\* than None: whenever the button is on the page, a transform is selected,
\* its result was displayed, and that result is what the button holds.
DownloadOnlyOfTransformResult ==
    page.download.offered =>
        /\ transform_type # "None"
        /\ page.shown # NoImage
        /\ page.download.data = page.shown

\* C4: every transform the controls can ask for, on every loaded picture,
\* yields an image of width and height at least 1 (crop where its sliders
\* are offered).
TransformYieldsImage ==
    (Loaded /\ transform_type # "None" /\ ~(transform_type = "Crop" /\ TooSmall)) =>
        /\ page.shown # NoImage
        /\ page.shown.w >= 1
        /\ page.shown.h >= 1

\* C6: with Crop selected on a picture narrower or lower than 2 pixels, the
\* error message is shown, the four crop sliders are not offered and no
\* cropped image is produced: nothing is displayed below the original and the
\* local image is still the copy of the original.
CropTooSmall ==
    (Loaded /\ transform_type = "Crop" /\ TooSmall) =>
        /\ page.error = "Image too small to crop."
        /\ ~page.crop_options
        /\ page.shown = NoImage
        /\ page.download.data = Original
        /\ ~ENABLED SetXStart /\ ~ENABLED SetXEnd
        /\ ~ENABLED SetYStart /\ ~ENABLED SetYEnd

CropTooSmallWitness ==
    /\ transform_type = "Crop"
    /\ Original \in Pictures
    /\ Original.w = 1
    /\ page.error = "Image too small to crop."

\* C7: brightness adds delta to a channel value and saturates: the result is
\* min(255, max(0, v + delta)) for every v in 0..255 and delta in -100..100;
\* delta = 100 on v >= 156 gives 255 and delta = -100 on v <= 99 gives 0.
BrightnessSaturates ==
    probe.op = "brightness" =>
        /\ probe.out = IF probe.v + probe.p > 255 THEN 255
                       ELSE IF probe.v + probe.p < 0 THEN 0
                       ELSE probe.v + probe.p
        /\ (probe.p = 100 /\ probe.v >= 156) => probe.out = 255
        /\ (probe.p = -100 /\ probe.v <= 99) => probe.out = 0

BrightnessSaturatesWitness ==
    probe = [op |-> "brightness", v |-> 156, p |-> 100, out |-> 255]

\* C8: contrast multiplies a channel value by the factor and clamps: for
\* every v in 0..255 and factor in 0.10..3.00 the result is in 0..255, it is
\* 255 whenever v * factor >= 255, and factor 1.0 leaves v unchanged.
ContrastClamps ==
    probe.op = "contrast" =>
        /\ probe.out \in 0..255
        /\ probe.v * probe.p >= 25500 => probe.out = 255
        /\ probe.p = 100 => probe.out = probe.v

ContrastClampsWitness ==
    probe = [op |-> "contrast", v |-> 100, p |-> 300, out |-> 255]

\* C9: on a picture of at least 2 x 2 every crop the sliders can ask for has
\* 0 <= x1 < x2 <= W and 0 <= y1 < y2 <= H, and the result is the sub-region
\* [x1, x2) x [y1, y2) of the original, x2 - x1 wide and y2 - y1 high.
CropIsSubRegion ==
    (Loaded /\ transform_type = "Crop" /\ ~TooSmall) =>
        /\ page.crop_options
        /\ 0 <= params.x1 /\ params.x1 < params.x2 /\ params.x2 <= Original.w
        /\ 0 <= params.y1 /\ params.y1 < params.y2 /\ params.y2 <= Original.h
        /\ page.shown.w = params.x2 - params.x1
        /\ page.shown.h = params.y2 - params.y1
        /\ page.shown.via = Literal
        /\ DOMAIN page.shown.px = 1..page.shown.h
        /\ \A y \in 1..page.shown.h :
             /\ DOMAIN page.shown.px[y] = 1..page.shown.w
             /\ \A x \in 1..page.shown.w :
                  page.shown.px[y][x] = Original.px[params.y1 + y][params.x1 + x]

CropIsSubRegionWitness ==
    /\ transform_type = "Crop"
    /\ params.x1 = 1 /\ params.x2 = 2
    /\ params.y1 = 0 /\ params.y2 = 1
    /\ page.shown.w = 1 /\ page.shown.h = 1
    /\ page.shown.px[1][1] = Original.px[1][2]

\* C10: once an image is loaded the session's original never becomes None
\* again; a run that is given no image leaves the session as it was; and
\* the page stops at "please upload" exactly while no image is loaded.
OriginalStays ==
    [][ /\ Loaded => Loaded'
        /\ SuppliedImage(source', uploaded_file', camera_image') = NoImage
             => session_state' = session_state
        /\ page'.stopped <=> ~Loaded' ]_vars

OriginalStaysWitness ==
    /\ input_branch = "no image"
    /\ uploaded_file = NoImage /\ camera_image = NoImage
    /\ Loaded
    /\ ~page.stopped
    /\ transform_type = "Flip"
    /\ page.shown = Flip(Original, 1)
====
